---- MODULE Spec2Model ----
(***************************************************************************)
(* Model of the Ghostpass credential field (src/field.go): the Field       *)
(* struct, its two constructors NewField and ReconstructField and its two  *)
(* mutating methods RederiveAuthPair and AddDeniableSecret.                *)
(*                                                                         *)
(* Strings and byte slices are sequences of one-character strings.  The    *)
(* secretbox helpers BoxEncrypt/BoxDecrypt and the memguard enclave are    *)
(* collaborators whose code is not in src/; they are modelled from their   *)
(* contract (seal/open with authentication, guard/open of bytes).          *)
(***************************************************************************)
EXTENDS Naturals, Sequences, FiniteSets

\* ------------------------------------------------------------------ bounds
\* longest username / password cleartext drawn as an input
MaxLen == 2
\* longest DeniablePairs list the model lets AddDeniableSecret build
MaxPairs == 2

\* ------------------------------------------------------------------ inputs
Sep == ":"
Chars == {"a", Sep}
Keys == {"k1", "k2"}

Str(n) == UNION {[1..m -> Chars] : m \in 0..n}

HasSep(s) == \E i \in 1..Len(s) : s[i] = Sep

\* error values
OK == "nil"
MissingSecretError == "No secret in field"
AuthenticationError == "AuthenticationError"
SealError == "SealError"
GuardedSecretError == "GuardedSecretError"
MalformedPlaintextError == "MalformedPlaintextError"
IndexPanic == "panic: index out of range"

\* ------------------------------------------------------- byte slices, box
\* A []byte value: the nil slice, a non-nil slice of length 0, bytes that are
\* no sealed box, or the box sealing plaintext pt under key.
NilBlob == [kind |-> "nil", key |-> "", pt |-> <<>>]
EmptyBlob == [kind |-> "empty", key |-> "", pt |-> <<>>]
JunkBlob == [kind |-> "junk", key |-> "", pt |-> <<>>]
Box(key, pt) == [kind |-> "box", key |-> key, pt |-> pt]

\* seal(key, plaintext) -> ciphertext | primitive-level fault
BoxEncrypt(key, pt, fault) ==
    IF fault THEN [err |-> SealError, out |-> NilBlob]
    ELSE [err |-> OK, out |-> Box(key, pt)]

\* open(key, ciphertext) -> plaintext | AuthenticationError
BoxDecrypt(key, blob) ==
    IF blob.kind = "box" /\ blob.key = key
    THEN [err |-> OK, out |-> blob.pt]
    ELSE [err |-> AuthenticationError, out |-> <<>>]

\* ------------------------------------------------------- memguard enclave
\* *memguard.Enclave: the nil pointer, a sealed enclave over bytes, or an
\* enclave whose Open fails.
NilEnclave == [st |-> "nil", bytes |-> <<>>]
BadEnclave == [st |-> "bad", bytes |-> <<>>]
Enclave(bytes) == [st |-> "sealed", bytes |-> bytes]

\* (*Enclave).Open: a fresh LockedBuffer with the cleartext, or an error
EnclaveOpen(e) ==
    IF e.st = "sealed" THEN [err |-> OK, buf |-> e.bytes]
    ELSE [err |-> GuardedSecretError, buf |-> <<>>]

\* a live (not yet destroyed) LockedBuffer, named after the local holding it
LockedBuffer(name, bytes) == [name |-> name, bytes |-> bytes]

\* (*LockedBuffer).Seal: the enclave over the bytes; the buffer is destroyed
Seal(buf) == Enclave(buf.bytes)

\* --------------------------------------------------------------- strings
RECURSIVE FirstSep(_, _)
FirstSep(s, i) ==
    IF i > Len(s) THEN 0
    ELSE IF s[i] = Sep THEN i
    ELSE FirstSep(s, i + 1)

\* strings.Split(s, ":"): every separator splits
RECURSIVE Split(_)
Split(s) ==
    LET i == FirstSep(s, 1) IN
    IF i = 0 THEN <<s>>
    ELSE <<SubSeq(s, 1, i - 1)>> \o Split(SubSeq(s, i + 1, Len(s)))

\* username ":" clearpwd, as the strings.Builder writes it
Concat(username, clearpwd) == username \o <<Sep>> \o clearpwd

\* ------------------------------------------------------------------ Field
Field(u, p, a, d) ==
    [Username |-> u, Pwd |-> p, AuthPair |-> a, DeniablePairs |-> d]

\* var field Field
ZeroField == Field(NilEnclave, NilEnclave, NilBlob, <<>>)

\* ------------------------------------------------------------- operations
\* What one call leaves behind: the error it returned (OK for nil), whether
\* the caller holds a *Field afterwards, the Field struct the call worked on,
\* the LockedBuffers the call created and left alive, and the number of
\* BoxDecrypt calls it made.
Result(err, held, f, live, opens) ==
    [err |-> err, held |-> held, field |-> f, live |-> live, opens |-> opens]

\* variant: writes the password before the username
NewField_Swapped(key, username, pwd, fault) ==
    LET o == EnclaveOpen(pwd) IN
    IF o.err # OK THEN Result(o.err, FALSE, ZeroField, {}, 0)
    ELSE
      LET clearpwd == LockedBuffer("clearpwd", o.buf)
          e == BoxEncrypt(key, Concat(clearpwd.bytes, username), fault)
      IN
      IF e.err # OK
      THEN Result(e.err, FALSE, ZeroField, {clearpwd}, 0)
      ELSE
        LET user_enclave == LockedBuffer("user_enclave", username) IN
        Result(OK, TRUE, Field(Seal(user_enclave), pwd, e.out, <<>>),
               {clearpwd, user_enclave} \ {user_enclave}, 0)

\* func NewField(key []byte, username string, pwd *memguard.Enclave)
NewField(key, username, pwd, fault) ==
    LET o == EnclaveOpen(pwd) IN
    IF o.err # OK THEN Result(o.err, FALSE, ZeroField, {}, 0)
    ELSE
      LET clearpwd == LockedBuffer("clearpwd", o.buf)
          secretstr == Concat(username, clearpwd.bytes)
          e == BoxEncrypt(key, secretstr, fault)
      IN
      IF e.err # OK
      THEN Result(e.err, FALSE, ZeroField, {clearpwd}, 0)
      ELSE
        \* user_enclave.Seal() destroys user_enclave; clearpwd is never
        \* destroyed
        LET user_enclave == LockedBuffer("user_enclave", username) IN
        Result(OK, TRUE, Field(Seal(user_enclave), pwd, e.out, <<>>),
               {clearpwd, user_enclave} \ {user_enclave}, 0)

\* variant: drops the handles before it decrypts
RederiveAuthPair_ClearsFirst(f, key) ==
    LET g == [f EXCEPT !.Username = NilEnclave, !.Pwd = NilEnclave] IN
    IF f.AuthPair.kind = "nil"
    THEN Result(MissingSecretError, TRUE, g, {}, 0)
    ELSE
      LET d == BoxDecrypt(key, f.AuthPair) IN
      IF d.err # OK THEN Result(d.err, TRUE, g, {}, 1)
      ELSE
        LET creds == Split(d.out) IN
        IF Len(creds) < 2 THEN Result(IndexPanic, TRUE, g, {}, 1)
        ELSE
          LET user_enclave == LockedBuffer("user_enclave", creds[1])
              pwd_enclave == LockedBuffer("pwd_enclave", creds[2])
          IN
          Result(OK, TRUE,
                 [f EXCEPT !.Username = Seal(user_enclave),
                           !.Pwd = Seal(pwd_enclave)],
                 {}, 1)

\* variant: also resets the deniable list
RederiveAuthPair_DropsPairs(f, key) ==
    IF f.AuthPair.kind = "nil"
    THEN Result(MissingSecretError, TRUE, f, {}, 0)
    ELSE
      LET d == BoxDecrypt(key, f.AuthPair) IN
      IF d.err # OK THEN Result(d.err, TRUE, f, {}, 1)
      ELSE
        LET creds == Split(d.out) IN
        IF Len(creds) < 2 THEN Result(IndexPanic, TRUE, f, {}, 1)
        ELSE
          LET user_enclave == LockedBuffer("user_enclave", creds[1])
              pwd_enclave == LockedBuffer("pwd_enclave", creds[2])
          IN
          Result(OK, TRUE,
                 [f EXCEPT !.Username = Seal(user_enclave),
                           !.Pwd = Seal(pwd_enclave),
                           !.DeniablePairs = <<>>],
                 {}, 1)

\* func (f *Field) RederiveAuthPair(key []byte) error
RederiveAuthPair(f, key) ==
    IF f.AuthPair.kind = "nil"
    THEN Result(MissingSecretError, TRUE, f, {}, 0)
    ELSE
      LET d == BoxDecrypt(key, f.AuthPair) IN
      IF d.err # OK THEN Result(d.err, TRUE, f, {}, 1)
      ELSE
        LET creds == Split(d.out) IN
        \* creds[1] of a one-element slice panics
        IF Len(creds) < 2 THEN Result(IndexPanic, TRUE, f, {}, 1)
        ELSE
          LET user_enclave == LockedBuffer("user_enclave", creds[1])
              pwd_enclave == LockedBuffer("pwd_enclave", creds[2])
          IN
          Result(OK, TRUE,
                 [f EXCEPT !.Username = Seal(user_enclave),
                           !.Pwd = Seal(pwd_enclave)],
                 {user_enclave, pwd_enclave} \ {user_enclave, pwd_enclave}, 1)

\* variant: returns the field although rederivation failed
ReconstructField_SwallowsErr(key, compressed) ==
    LET field0 == [ZeroField EXCEPT !.AuthPair = compressed]
        r == RederiveAuthPair(field0, key)
    IN Result(OK, TRUE, r.field, r.live, r.opens)

\* func ReconstructField(key []byte, compressed []byte) (*Field, error)
ReconstructField(key, compressed) ==
    LET field0 == [ZeroField EXCEPT !.AuthPair = compressed]
        r == RederiveAuthPair(field0, key)
    IN
    IF r.err # OK
    THEN Result(r.err, FALSE, r.field, r.live, r.opens)
    ELSE Result(OK, TRUE, r.field, r.live, r.opens)

\* variant: puts the new pair in front of the list
AddDeniableSecret_Prepends(f, username, pwd) ==
    LET o == EnclaveOpen(pwd) IN
    IF o.err # OK THEN Result(o.err, TRUE, f, {}, 0)
    ELSE
      LET clearpwd == LockedBuffer("clearpwd", o.buf)
          secretstr == Concat(username, clearpwd.bytes)
      IN
      Result(OK, TRUE,
             [f EXCEPT !.DeniablePairs = <<secretstr>> \o f.DeniablePairs],
             {clearpwd}, 0)

\* func (f *Field) AddDeniableSecret(username string, pwd *memguard.Enclave)
AddDeniableSecret(f, username, pwd) ==
    LET o == EnclaveOpen(pwd) IN
    IF o.err # OK THEN Result(o.err, TRUE, f, {}, 0)
    ELSE
      \* clearpwd is never destroyed
      LET clearpwd == LockedBuffer("clearpwd", o.buf)
          secretstr == Concat(username, clearpwd.bytes)
      IN
      Result(OK, TRUE,
             [f EXCEPT !.DeniablePairs = Append(f.DeniablePairs, secretstr)],
             {clearpwd}, 0)

\* ---------------------------------------------------------- state machine
\* input domains of the calls
Usernames == Str(MaxLen)
PwdHandles == {Enclave(s) : s \in Str(MaxLen)} \cup {BadEnclave}
Plaintexts == Str(2 * MaxLen + 1)
Blobs == {NilBlob, EmptyBlob, JunkBlob}
           \cup {Box(k, s) : k \in Keys, s \in Plaintexts}
DeniableUsers == {<<"b", "o", "b">>}
DeniablePwds == {Enclave(<<"d", "e", "c", "o", "y">>), Enclave(<<Sep>>),
                 BadEnclave}

VARIABLES
    field,   \* the Field struct the last call worked on
    held,    \* TRUE iff the caller holds a *Field (the last constructor
             \* returned one)
    appends, \* the <<username, cleartext>> pairs of the successful
             \* AddDeniableSecret calls on this envelope, in call order
    call,    \* the last call: its name and arguments
    err,     \* the error the last call returned (OK for nil)
    live,    \* LockedBuffers the last call created and left alive
    opens    \* number of BoxDecrypt calls the last call made

vars == <<field, held, appends, call, err, live, opens>>

Call(op, key, username, pwd, blob) ==
    [op |-> op, key |-> key, username |-> username, pwd |-> pwd,
     blob |-> blob]

Returns(r) ==
    /\ field' = r.field
    /\ held' = r.held
    /\ err' = r.err
    /\ live' = r.live
    /\ opens' = r.opens

Init ==
    /\ field = ZeroField
    /\ held = FALSE
    /\ appends = <<>>
    /\ call = Call("none", "", <<>>, NilEnclave, NilBlob)
    /\ err = OK
    /\ live = {}
    /\ opens = 0

\* The model follows one envelope: a constructor call starts its life, the
\* methods then act on the *Field the constructor returned.
DoNewField ==
    \E key \in Keys, username \in Usernames, pwd \in PwdHandles,
       fault \in BOOLEAN :
        /\ call.op = "none"
        /\ call' = Call("NewField", key, username, pwd, NilBlob)
        /\ appends' = <<>>
        /\ Returns(NewField(key, username, pwd, fault))

DoReconstructField ==
    \E key \in Keys, compressed \in Blobs :
        /\ call.op = "none"
        /\ call' = Call("ReconstructField", key, <<>>, NilEnclave, compressed)
        /\ appends' = <<>>
        /\ Returns(ReconstructField(key, compressed))

DoRederiveAuthPair ==
    \E key \in Keys :
        /\ held
        /\ call' = Call("RederiveAuthPair", key, <<>>, NilEnclave, NilBlob)
        /\ appends' = appends
        /\ Returns(RederiveAuthPair(field, key))

DoAddDeniableSecret ==
    \E username \in DeniableUsers, pwd \in DeniablePwds :
        /\ held
        /\ Len(field.DeniablePairs) < MaxPairs
        /\ call' = Call("AddDeniableSecret", "", username, pwd, NilBlob)
        /\ LET r == AddDeniableSecret(field, username, pwd) IN
             /\ appends' = IF r.err = OK
                           THEN Append(appends,
                                       <<username, EnclaveOpen(pwd).buf>>)
                           ELSE appends
             /\ Returns(r)

Next ==
    \/ DoNewField
    \/ DoReconstructField
    \/ DoRederiveAuthPair
    \/ DoAddDeniableSecret

Spec == Init /\ [][Next]_vars

\* ------------------------------------------------------------ properties
Cleartexts == Str(MaxLen)

\* the cleartext a handle yields when opened
Opened(e) == EnclaveOpen(e).buf
Opens(e, bytes) == EnclaveOpen(e) = [err |-> OK, buf |-> bytes]

\* the stored blob of a successful NewField(k, u, p)
Created(k, u, p) == NewField(k, u, Enclave(p), FALSE).field.AuthPair

Reconstructed(k, blob) ==
    /\ call.op = "ReconstructField"
    /\ call.key = k
    /\ call.blob = blob

Methods == {"RederiveAuthPair", "AddDeniableSecret"}
Constructors == {"NewField", "ReconstructField"}

\* C1: round trip -- ReconstructField(k, NewField(k, u, p).AuthPair), with
\* neither u nor p containing ':', succeeds and returns a field whose opened
\* Username is u and whose opened Pwd is p.
C1_RoundTrip ==
    \A k \in Keys, u \in Cleartexts, p \in Cleartexts :
        (~HasSep(u) /\ ~HasSep(p) /\ Reconstructed(k, Created(k, u, p)))
            => /\ err = OK
               /\ held
               /\ Opens(field.Username, u)
               /\ Opens(field.Pwd, p)

C1_Witness ==
    \E k \in Keys, u \in Cleartexts, p \in Cleartexts :
        /\ Len(u) > 0 /\ Len(p) > 0 /\ u # p
        /\ ~HasSep(u) /\ ~HasSep(p)
        /\ Reconstructed(k, Created(k, u, p))
        /\ held
        /\ Opens(field.Username, u)
        /\ Opens(field.Pwd, p)

\* C2: missing-secret guard -- ReconstructField(k, b) with b of length 0 (the
\* nil slice or a non-nil empty slice) fails with "No secret in field",
\* returns no field and never calls BoxDecrypt.
C2_MissingSecretGuard ==
    (call.op = "ReconstructField" /\ call.blob.kind \in {"nil", "empty"})
        => /\ err = MissingSecretError
           /\ ~held
           /\ opens = 0

\* C3: malformed plaintext -- when BoxDecrypt succeeds and the plaintext has
\* no ':', RederiveAuthPair returns a MalformedPlaintextError as an error
\* value and ReconstructField returns it with no field.
C3_MalformedPlaintext ==
    LET d == BoxDecrypt(call.key, field.AuthPair) IN
    (call.op \in {"ReconstructField", "RederiveAuthPair"}
       /\ d.err = OK /\ ~HasSep(d.out))
        => /\ err = MalformedPlaintextError
           /\ call.op = "ReconstructField" => ~held

\* C4: first-separator split -- for u without ':' and any p (also one that
\* contains ':'), ReconstructField(k, NewField(k, u, p).AuthPair) yields
\* opened Username u and opened Pwd p.
C4_FirstSeparatorSplit ==
    \A k \in Keys, u \in Cleartexts, p \in Cleartexts :
        (~HasSep(u) /\ Reconstructed(k, Created(k, u, p)))
            => /\ err = OK
               /\ Opens(field.Username, u)
               /\ Opens(field.Pwd, p)

\* C5: wrong-key rejection -- for k1 # k2, ReconstructField(k2,
\* NewField(k1, u, p).AuthPair) fails with the AuthenticationError of
\* BoxDecrypt and returns no field.
C5_WrongKeyRejection ==
    \A k1 \in Keys, k2 \in Keys, u \in Cleartexts, p \in Cleartexts :
        (k1 # k2 /\ Reconstructed(k2, Created(k1, u, p)))
            => /\ err = AuthenticationError
               /\ ~held

C5_Witness ==
    \E k1 \in Keys, k2 \in Keys, u \in Cleartexts, p \in Cleartexts :
        /\ k1 # k2
        /\ Len(u) > 0
        /\ Reconstructed(k2, Created(k1, u, p))
        /\ err = AuthenticationError
        /\ opens = 1

\* C6: no partial mutation on failure -- a failing RederiveAuthPair or
\* AddDeniableSecret leaves Username, Pwd, AuthPair and DeniablePairs as
\* they were before the call (inside ReconstructField: as the fresh struct
\* holding only the blob), and a failing NewField or ReconstructField
\* returns no field.
C6_NoPartialMutation ==
    [][err' # OK =>
         /\ call'.op \in Methods => field' = field
         /\ call'.op = "ReconstructField"
              => field' = [ZeroField EXCEPT !.AuthPair = call'.blob]
         /\ call'.op \in Constructors => ~held']_vars

C6_Witness ==
    /\ call.op = "RederiveAuthPair"
    /\ err = AuthenticationError
    /\ held
    /\ field.Username # NilEnclave
    /\ field.Pwd # NilEnclave
    /\ Len(field.DeniablePairs) > 0

\* C7: scoped cleartext release -- after NewField or AddDeniableSecret has
\* returned, no cleartext buffer opened by the call is still alive.
C7_ScopedRelease ==
    call.op \in {"NewField", "AddDeniableSecret"} => live = {}

\* C8: deniable append -- a field returned by a constructor starts with
\* DeniablePairs empty, and after n successful AddDeniableSecret(u_i, p_i)
\* calls DeniablePairs holds exactly the n entries u_i ":" cleartext(p_i),
\* in call order.
C8_DeniableAppend ==
    held =>
        /\ Len(field.DeniablePairs) = Len(appends)
        /\ \A i \in 1..Len(appends) :
              field.DeniablePairs[i] = appends[i][1] \o <<":">> \o appends[i][2]

C8_Witness ==
    /\ call.op = "AddDeniableSecret"
    /\ err = OK
    /\ Len(appends) = 2
    /\ appends[1] # appends[2]
    /\ field.DeniablePairs[2] =
          <<"b", "o", "b", ":", "d", "e", "c", "o", "y">>

\* C9: handles are derived from AuthPair -- on every field reached from a
\* successful constructor call with key k, RederiveAuthPair(k) succeeds and
\* leaves the opened Username and the opened Pwd as they were.
C9_HandlesDerived ==
    held =>
        LET r == RederiveAuthPair(field, field.AuthPair.key) IN
        /\ r.err = OK
        /\ Opened(r.field.Username) = Opened(field.Username)
        /\ Opened(r.field.Pwd) = Opened(field.Pwd)

\* C10: frame -- on a returned field, RederiveAuthPair and AddDeniableSecret
\* never change AuthPair, RederiveAuthPair never changes DeniablePairs, and
\* AddDeniableSecret never changes Username or Pwd.
C10_Frame ==
    [][held =>
         /\ call'.op \in Methods => field'.AuthPair = field.AuthPair
         /\ call'.op = "RederiveAuthPair"
              => field'.DeniablePairs = field.DeniablePairs
         /\ call'.op = "AddDeniableSecret"
              => /\ field'.Username = field.Username
                 /\ field'.Pwd = field.Pwd]_vars

C10_Witness ==
    /\ call.op = "RederiveAuthPair"
    /\ err = OK
    /\ Len(field.DeniablePairs) > 0
    /\ field.AuthPair.kind = "box"

====
